---------------------------- MODULE Spec2Model ----------------------------
(***************************************************************************)
(* A model of perrot's axis scaling and synchronisation:                   *)
(*   - Plot.zoom, Plot.finalize_zoom, Plot.finalize_axis and the series    *)
(*     limits aggregation of perrot/prebuilds/plot.py,                     *)
(*   - Series.get_limits / finalize_limits of perrot/series,               *)
(*   - Syncer of perrot/interact/syncer.py,                                *)
(*   - ChartBase.init_objects, init_frames, draw, add, remove and map of   *)
(*     perrot/chart/chart.py, Axis.get_extent of perrot/chart/axes.py,     *)
(*   - Venn.__init__ and Venn.draw of perrot/venn/venn.py.                 *)
(*                                                                         *)
(* Numbers are exact decimals held as integers in units of one tenth:      *)
(* the value 1.0 of the source is 10 here, so that the 10 % widening of a  *)
(* zero-width range stays an integer for every value the model feeds it.   *)
(* None is the empty sequence <<>>, a number v is <<v>>.                    *)
(***************************************************************************)
EXTENDS Integers, Sequences, FiniteSets, TLC

VARIABLES
    axes,       \* tag -> the Axis properties the plot reads (registered axes only)
    domain,     \* tag -> axis.scale.in_range, a pair <<start, end>>
    series,     \* tag -> the Series of the plots: visible, related axes, data
    last,       \* the last plot call: what was asked, what finalize_axis was handed
    ncalls,     \* how many calls the user has made on the plot
    links,      \* Syncer._links, a sequence of <<master, m_axis, slave, s_axis>>
    in_sync,    \* Syncer._in_sync
    bound,      \* control -> how many times Syncer._on_zoom is bound to its EVT_ZOOM
    stack,      \* the call stack of a running control zoom
    applied,    \* link index -> slave zooms made for it since the originating zoom
    raised,     \* whether the last control zoom ended with an exception
    origin,     \* the control zoom the user made last: <<control, axis>>, or None
    chart,      \* the properties of a ChartBase that the layout reads
    graphics,   \* ChartBase._graphics: tag -> the properties of the object
    mapping,    \* ChartBase._mapping: the tags that have mapped properties ->
                \* sequence of <<prop, src tag, src prop>>, in the order they were set
    frames,     \* _chart_frame, _data_frame and the frame of every object
    venn,       \* the properties of a Venn and its _frame
    canvas      \* what the last draw of the chart and of the venn painted

vars == <<axes, domain, series, last, ncalls, links, in_sync, bound, stack, applied, raised, origin,
          chart, graphics, mapping, frames, venn, canvas>>

plotVars == <<axes, domain, series, last, ncalls>>
syncVars == <<links, in_sync, bound, stack, applied, raised, origin>>
chartVars == <<chart, graphics, mapping, frames, venn, canvas>>

---------------------------------------------------------------------------
(* Values and small helpers *)

None == <<>>
Some(v) == <<v>>
IsNone(o) == o = <<>>
Val(o) == o[1]

\* 1.0 in tenths: the end forced on a (0, 0) range
One == 10

Abs(x) == IF x < 0 THEN -x ELSE x
Max2(a, b) == IF a > b THEN a ELSE b
Min2(a, b) == IF a < b THEN a ELSE b
SetMin(S) == CHOOSE m \in S : \A x \in S : m <= x
SetMax(S) == CHOOSE m \in S : \A x \in S : m >= x

\* F(v), with v evaluated once
With(v, F(_)) == CHOOSE r \in {F(y) : y \in {v}} : TRUE

\* 0.1 * x, exact for the multiples of one the model uses it on
Tenth(x) == IF x >= 0 THEN x \div 10 ELSE -((-x) \div 10)

\* delta * margin for a margin given in percent
Percent(delta, pct) == (delta * pct) \div 100

\* the elements of S in the order they have in the sequence ord
InOrder(S, ord) == SelectSeq(ord, LAMBDA t : t \in S)

Perms(S) ==
    {p \in [1..Cardinality(S) -> S] : \A i, j \in 1..Cardinality(S) : i # j => p[i] # p[j]}

POSITION_TB == {"top", "bottom"}
POSITION_LR == {"left", "right"}

---------------------------------------------------------------------------
(* Series limits *)

\* utils.calc_limits_unsorted(data, crops, extend=False): the limits of the
\* points that lie inside the given crops, None when no point does
calc_limits_unsorted(pts, x_range, y_range) ==
    LET inX(p) == IsNone(x_range)
                  \/ (p[1] >= Min2(Val(x_range)[1], Val(x_range)[2])
                      /\ p[1] <= Max2(Val(x_range)[1], Val(x_range)[2]))
        inY(p) == IsNone(y_range)
                  \/ (p[2] >= Min2(Val(y_range)[1], Val(y_range)[2])
                      /\ p[2] <= Max2(Val(y_range)[1], Val(y_range)[2]))
        kept == {p \in pts : inX(p) /\ inY(p)}
    IN  IF kept = {} THEN None
        ELSE Some(<< <<SetMin({p[1] : p \in kept}), SetMax({p[1] : p \in kept})>>,
                     <<SetMin({p[2] : p \in kept}), SetMax({p[2] : p \in kept})>> >>)

\* Series.finalize_limits for one dimension: the margin, then the zero-range guard
finalize_dim(lim, mLo, mHi, exact) ==
    With(IF exact THEN lim
         ELSE <<lim[1] - Percent(lim[2] - lim[1], mLo), lim[2] + Percent(lim[2] - lim[1], mHi)>>,
         LAMBDA m : IF m[1] = m[2] THEN <<m[1] - Tenth(m[1]), m[2] + Tenth(m[2])>> ELSE m)

\* Series.finalize_limits: None stays None
finalize_limits(s, limits, exact) ==
    With(limits, LAMBDA l :
        IF IsNone(l) THEN None
        ELSE Some([d \in {1, 2} |-> finalize_dim(Val(l)[d], s.margin, s.margin, exact)]))

\* Scatter.get_limits: the full limits, or the cropped ones when a crop is given
get_limits(s, x_range, y_range, exact) ==
    IF s.pts = {} THEN None
    ELSE finalize_limits(s,
             IF ~IsNone(x_range) \/ ~IsNone(y_range)
             THEN calc_limits_unsorted(s.pts, x_range, y_range)
             ELSE Some(<< <<SetMin({p[1] : p \in s.pts}), SetMax({p[1] : p \in s.pts})>>,
                          <<SetMin({p[2] : p \in s.pts}), SetMax({p[2] : p \in s.pts})>> >>),
             exact)

\* Plot._get_related_axes: the axes a series is mapped to
get_related_axes(s) == series[s].related \cap DOMAIN axes

\* the limits one series gives for the dimension of the axis, None when it has none
series_dim_limits(s, axis, x_range, y_range, exact) ==
    With(get_limits(series[s], x_range, y_range, exact), LAMBDA limits :
        IF IsNone(limits) THEN None
        ELSE IF axes[axis].position \in POSITION_TB THEN Some(Val(limits)[1])
        ELSE Some(Val(limits)[2]))

\* a _get_series_limits that does not skip the invisible series
get_series_limits_all(axis, x_range, y_range, exact) ==
    With({series_dim_limits(s, axis, x_range, y_range, exact) :
              s \in {t \in DOMAIN series : axis \in get_related_axes(t)}} \ {None},
         LAMBDA lims :
            IF lims = {} THEN <<None, None>>
            ELSE <<Some(SetMin({Val(l)[1] : l \in lims})), Some(SetMax({Val(l)[2] : l \in lims}))>>)

\* Plot._get_series_limits: <<minimum, maximum>> over the visible series
\* connected to the axis, each None when no series contributes
get_series_limits(axis, x_range, y_range, exact) ==
    With({series_dim_limits(s, axis, x_range, y_range, exact) :
              s \in {t \in DOMAIN series : series[t].visible /\ axis \in get_related_axes(t)}}
         \ {None},
         LAMBDA lims :
            IF lims = {} THEN <<None, None>>
            ELSE <<Some(SetMin({Val(l)[1] : l \in lims})), Some(SetMax({Val(l)[2] : l \in lims}))>>)

---------------------------------------------------------------------------
(* Plot.finalize_axis, step by step *)

\* "use full range if not set", then "check range": the series range when a
\* bound is missing, the empty_range when that is missing too
step_range(a, rng, start, end) ==
    With(IF IsNone(start) \/ IsNone(end) THEN rng ELSE <<start, end>>, LAMBDA se :
        IF IsNone(se[1]) \/ IsNone(se[2])
        THEN <<axes[a].empty_range[1], axes[a].empty_range[2]>>
        ELSE <<Val(se[1]), Val(se[2])>>)

\* "check data limits"
step_limits(a, rng, se) ==
    IF axes[a].check_limits /\ ~IsNone(rng[1]) /\ ~IsNone(rng[2])
    THEN LET range_min == Val(rng[1])
             range_max == Val(rng[2])
         IN  IF se[1] < range_min /\ se[2] > range_max THEN <<range_min, range_max>>
             ELSE IF se[1] < range_min
                  THEN <<se[1] + (range_min - se[1]), se[2] + (range_min - se[1])>>
             ELSE IF se[2] > range_max
                  THEN <<se[1] - (se[2] - range_max), se[2] - (se[2] - range_max)>>
             ELSE se
    ELSE se

\* a finalize_axis that widens to the included values only downwards
step_includes_low_only(a, se) ==
    IF axes[a].includes # {}
    THEN << IF se[1] > SetMin(axes[a].includes) THEN SetMin(axes[a].includes) ELSE se[1], se[2] >>
    ELSE se

\* "check required values"
step_includes(a, se) ==
    IF axes[a].includes # {}
    THEN With(<<SetMin(axes[a].includes), SetMax(axes[a].includes)>>, LAMBDA incl :
             << IF se[1] > incl[1] THEN incl[1] ELSE se[1],
                IF se[2] < incl[2] THEN incl[2] ELSE se[2] >>)
    ELSE se

\* "check range": (0, 0) becomes (0, 1)
step_zero(se) ==
    IF se[1] = se[2] /\ se[1] = 0 THEN <<se[1], One>> ELSE se

\* a symmetry step that keeps the smaller absolute value
step_symmetric_smaller(a, se) ==
    IF axes[a].symmetric
    THEN <<-Min2(Abs(se[1]), Abs(se[2])), Min2(Abs(se[1]), Abs(se[2]))>>
    ELSE se

\* "check symmetry"
step_symmetric(a, se) ==
    IF axes[a].symmetric
    THEN <<-Max2(Abs(se[1]), Abs(se[2])), Max2(Abs(se[1]), Abs(se[2]))>>
    ELSE se

\* a finalize_axis without the last "check range"
step_final_absent(se) == se

\* the last "check range": a zero-width range is moved by 10 % of each bound
step_final(se) ==
    IF se[1] = se[2] THEN <<se[1] - Tenth(se[1]), se[2] + Tenth(se[2])>> ELSE se

\* the range finalize_axis has after the limits, includes and zero-range steps
before_symmetric(a, start, end) ==
    With(get_series_limits(a, None, None, FALSE), LAMBDA rng :
        step_zero(step_includes(a, step_limits(a, rng, step_range(a, rng, start, end)))))

\* Plot.finalize_axis: the pair written to axis.scale.in_range
finalize_axis(a, start, end) ==
    step_final(step_symmetric(a, before_symmetric(a, start, end)))


---------------------------------------------------------------------------
(* Plot.zoom and Plot.finalize_zoom *)

\* the registered axes of one plot
plot_axes(p) == {a \in DOMAIN axes : axes[a].plot = p}

\* ChartBase.get_obj(axis): the object plot p has registered under the tag of
\* the given axis, None (a KeyError) when it has none
get_obj(p, axis) ==
    LET found == {a \in plot_axes(p) : axes[a].tag = axes[axis].tag}
    IN  IF found = {} THEN None ELSE Some(CHOOSE a \in found : TRUE)

\* Plot._get_parent_axes: the axes of smaller level on a visible series of the axis
get_parent_axes(axis) ==
    {item \in DOMAIN axes :
        /\ axes[item].level < axes[axis].level
        /\ \E s \in DOMAIN series :
              /\ series[s].visible
              /\ axis \in get_related_axes(s)
              /\ item \in get_related_axes(s)}

\* Plot._get_child_axes: the axes of bigger level on a visible series of the axis
get_child_axes(axis) ==
    {item \in DOMAIN axes :
        /\ axes[item].level > axes[axis].level
        /\ \E s \in DOMAIN series :
              /\ series[s].visible
              /\ axis \in get_related_axes(s)
              /\ item \in get_related_axes(s)}

\* axes.sort(key=level) on list(self.axes): by level, registration order kept
sorted_by_level(S) ==
    CHOOSE q \in Perms(S) :
        \A i, j \in 1..Cardinality(S) :
            i < j => \/ axes[q[i]].level < axes[q[j]].level
                     \/ (axes[q[i]].level = axes[q[j]].level /\ axes[q[i]].reg < axes[q[j]].reg)

\* the x_range / y_range finalize_zoom takes from the parents, in the order
\* the parents set is iterated: a later parent of the same orientation wins
RECURSIVE parent_ranges(_, _, _)
parent_ranges(parents, dom, acc) ==
    IF parents = <<>> THEN acc
    ELSE LET parent == Head(parents)
             acc1 == IF axes[parent].position \in POSITION_TB
                     THEN <<Some(dom[parent]), acc[2]>>
                     ELSE IF axes[parent].position \in POSITION_LR
                     THEN <<acc[1], Some(dom[parent])>>
                     ELSE acc
         IN  parent_ranges(Tail(parents), dom, acc1)

\* "skip processed": the test child.tag in changed
is_processed(child, st) == child \in st.tags

\* a finalize_zoom that takes no child for independent
is_independent_never(child) == FALSE

\* "skip independent": a static axis, or one with autoscale off
is_independent(child) == axes[child].static \/ ~axes[child].autoscale

\* "remember axis": changed.add(child) adds the axis object, not its tag
remember(child, st) == [st EXCEPT !.objs = @ \cup {child}]

\* one run of finalize_axis inside a plot call: the domain written, the call logged
call_finalize_axis(a, start, end, st) ==
    [st EXCEPT !.dom[a] = finalize_axis(a, start, end),
               !.calls = Append(@, [axis |-> a, start |-> start, end |-> end])]

\* the inner loop of finalize_zoom over the children of one given axis
RECURSIVE process_children(_, _, _)
process_children(children, ordP, st) ==
    IF children = <<>> THEN st
    ELSE LET child == Head(children)
             rest == Tail(children)
         IN  process_children(rest, ordP,
                 IF is_processed(child, st) THEN st
                 ELSE IF is_independent(child) THEN st
                 ELSE IF get_parent_axes(child) = {} THEN remember(child, st)
                 ELSE With(parent_ranges(InOrder(get_parent_axes(child), ordP), st.dom,
                                         <<None, None>>),
                           LAMBDA rngs :
                      With(get_series_limits(child, rngs[1], rngs[2], FALSE),
                           LAMBDA se :
                               call_finalize_axis(child, se[1], se[2], remember(child, st)))))

\* the outer loop of finalize_zoom over the given axes
RECURSIVE process_axes(_, _, _, _)
process_axes(given, ordC, ordP, st) ==
    IF given = <<>> THEN st
    ELSE process_axes(Tail(given), ordC, ordP,
             process_children(InOrder(get_child_axes(Head(given)), ordC), ordP, st))

\* Plot.finalize_zoom(*axes): ordA, ordC and ordP are the orders in which the
\* sets of given axes, of children and of parents happen to be iterated
finalize_zoom(given, ordA, ordC, ordP, st) ==
    process_axes(InOrder(given, ordA), ordC, ordP,
                 [st EXCEPT !.tags = given, !.objs = {}])

\* a "set axes" loop that takes a missing bound from the series range
RECURSIVE zoom_items_from_series(_, _, _, _)
zoom_items_from_series(items, minimum, maximum, st) ==
    IF items = <<>> THEN st
    ELSE zoom_items_from_series(Tail(items), minimum, maximum,
             With(get_series_limits(Head(items), None, None, FALSE), LAMBDA lim :
                 call_finalize_axis(Head(items),
                     IF IsNone(minimum) THEN lim[1] ELSE minimum,
                     IF IsNone(maximum) THEN lim[2] ELSE maximum,
                     st)))

\* the "set axes" loop of Plot.zoom
RECURSIVE zoom_items(_, _, _, _)
zoom_items(items, minimum, maximum, st) ==
    IF items = <<>> THEN st
    ELSE zoom_items(Tail(items), minimum, maximum,
             With(IF IsNone(minimum) /\ IsNone(maximum)
                  THEN get_series_limits(Head(items), None, None, FALSE)
                  ELSE <<minimum, maximum>>,
                  LAMBDA lim :
                      call_finalize_axis(Head(items),
                          IF IsNone(lim[1]) THEN Some(st.dom[Head(items)][1]) ELSE lim[1],
                          IF IsNone(lim[2]) THEN Some(st.dom[Head(items)][2]) ELSE lim[2],
                          st)))

\* Plot.zoom(axis, minimum, maximum, propagate) on plot p; axis None is all axes
zoom(p, axis, minimum, maximum, propagate, ordC, ordP, st) ==
    With(zoom_items(IF IsNone(axis) THEN sorted_by_level(plot_axes(p)) ELSE <<Val(axis)>>,
                    minimum, maximum, st),
         LAMBDA st1 :
            IF propagate /\ ~IsNone(axis)
            THEN finalize_zoom({Val(axis)}, <<Val(axis)>>, ordC, ordP, st1)
            ELSE st1)

\* the state a plot call starts from
run0 == [dom |-> domain, calls |-> <<>>, tags |-> {}, objs |-> {}]

---------------------------------------------------------------------------
(* The plot calls as actions *)

\* the orders a set of two axes can be iterated in: a fixed order of all the
\* axis objects, and its reverse
Reverse(q) == [i \in 1..Len(q) |-> q[Len(q) + 1 - i]]
Orders == LET ord == CHOOSE q \in Perms(DOMAIN axes) : TRUE IN {ord, Reverse(ord)}

Opt(S) == {None} \cup {Some(v) : v \in S}

\* the number of calls a user makes on a plot or a control
MaxCalls == 2

Called(op, axis, given, minimum, maximum, propagate, st, err) ==
    [op |-> op, axis |-> axis, given |-> given, minimum |-> minimum, maximum |-> maximum,
     propagate |-> propagate, calls |-> st.calls, err |-> err]

\* plot.zoom(axis, minimum, maximum, propagate); get_obj raises KeyError for
\* a tag that is not registered
Zoom(p, axis, minimum, maximum, propagate) ==
    /\ stack = <<>>
    /\ ncalls < MaxCalls
    /\ ncalls' = ncalls + 1
    /\ IF ~IsNone(axis) /\ IsNone(get_obj(p, Val(axis)))
       THEN /\ last' = Called("zoom", axis, {}, minimum, maximum, propagate, run0, TRUE)
            /\ UNCHANGED domain
       ELSE \E ordC \in Orders, ordP \in Orders :
              LET st == zoom(p, IF IsNone(axis) THEN None ELSE get_obj(p, Val(axis)),
                             minimum, maximum, propagate, ordC, ordP, run0)
              IN  /\ domain' = st.dom
                  /\ last' = Called("zoom", axis, {}, minimum, maximum, propagate, st, FALSE)
    /\ UNCHANGED <<axes, series, syncVars>>
    /\ UNCHANGED chartVars

\* plot.finalize_zoom(*axes)
FinalizeZoom(given) ==
    /\ stack = <<>>
    /\ ncalls < MaxCalls
    /\ ncalls' = ncalls + 1
    /\ given \subseteq plot_axes("P")
    /\ \E ordA \in Perms(given), ordC \in Orders, ordP \in Orders :
          LET st == finalize_zoom(given, ordA, ordC, ordP, run0)
          IN  /\ domain' = st.dom
              /\ last' = Called("finalize_zoom", None, given, None, None, FALSE, st, FALSE)
    /\ UNCHANGED <<axes, series, syncVars>>
    /\ UNCHANGED chartVars

\* plot.finalize_axis(axis, start, end)
FinalizeAxis(a, start, end) ==
    /\ stack = <<>>
    /\ ncalls < MaxCalls
    /\ ncalls' = ncalls + 1
    /\ a \in DOMAIN axes
    /\ LET st == call_finalize_axis(a, start, end, run0)
       IN  /\ domain' = st.dom
           /\ last' = Called("finalize_axis", Some(a), {}, start, end, FALSE, st, FALSE)
    /\ UNCHANGED <<axes, series, syncVars>>
    /\ UNCHANGED chartVars

\* series.visible = v
SetVisible(s, v) ==
    /\ stack = <<>>
    /\ ncalls < MaxCalls
    /\ ncalls' = ncalls + 1
    /\ s \in DOMAIN series
    /\ series[s].visible # v
    /\ series' = [series EXCEPT ![s].visible = v]
    /\ last' = Called("set_visible", None, {}, None, None, FALSE, run0, FALSE)
    /\ UNCHANGED <<axes, domain, syncVars>>
    /\ UNCHANGED chartVars

\* plot.get_limits(axis, x_range, y_range, exact): the limits returned are
\* kept with the call
GetLimits(axis, x_range, y_range, exact) ==
    /\ stack = <<>>
    /\ ncalls < MaxCalls
    /\ ncalls' = ncalls + 1
    /\ axis \in plot_axes("P")
    /\ last' = [op |-> "get_limits", axis |-> Some(axis), x_range |-> x_range,
                y_range |-> y_range, exact |-> exact, err |-> FALSE,
                result |-> get_series_limits(axis, x_range, y_range, exact)]
    /\ UNCHANGED <<axes, domain, series, syncVars>>
    /\ UNCHANGED chartVars

---------------------------------------------------------------------------
(* Syncer *)

Controls == {"A", "B"}

\* the deepest call stack the model follows
MaxDepth == 5
\* the most links the model registers
MaxLinks == 2

\* the links a caller registers: the x-axes of A and B in both directions, and
\* A's x-axis to an axis B's plot has no tag for
LinkChoices == { <<"A", "ax", "B", "bx">>, <<"B", "bx", "A", "ax">>, <<"A", "ax", "B", "at">> }

\* the ranges a user zooms a control to
SyncReqs == { <<-20, 50>> }

Frame(fn, c, i) == [fn |-> fn, ctrl |-> c, i |-> i]
Top == stack[Len(stack)]
Pop == SubSeq(stack, 1, Len(stack) - 1)
ReplaceTop(f) == [stack EXCEPT ![Len(stack)] = f]

\* a syncer that finds no link of any master
has_master_never(q, master) == FALSE

\* any(d[0] is master for d in self._links)
has_master(q, master) == \E i \in 1..Len(q) : q[i][1] = master

\* Syncer.sync(master, m_axis, slave, s_axis), the axes given as objects as
\* sync_x and sync_y give them
Sync(link) ==
    /\ stack = <<>>
    /\ Len(links) < MaxLinks
    /\ bound' = IF ~has_master(links, link[1])
                THEN [bound EXCEPT ![link[1]] = @ + 1]
                ELSE bound
    /\ links' = Append(links, link)
    /\ origin' = None
    /\ applied' = <<>>
    /\ UNCHANGED <<plotVars, in_sync, stack, raised>>
    /\ UNCHANGED chartVars

\* list.remove(item): the first occurrence goes
remove_first(q, item) ==
    LET i == CHOOSE k \in 1..Len(q) : q[k] = item /\ \A j \in 1..(k - 1) : q[j] # item
    IN  SubSeq(q, 1, i - 1) \o SubSeq(q, i + 1, Len(q))

\* Syncer.unsync(master, m_axis, slave, s_axis)
Unsync(link) ==
    /\ stack = <<>>
    /\ IF \E i \in 1..Len(links) : links[i] = link
       THEN LET rest == remove_first(links, link)
            IN  /\ links' = rest
                /\ bound' = IF ~has_master(rest, link[1])
                            THEN [bound EXCEPT ![link[1]] = IF @ > 0 THEN @ - 1 ELSE 0]
                            ELSE bound
       ELSE UNCHANGED <<links, bound>>
    /\ origin' = None
    /\ applied' = <<>>
    /\ UNCHANGED <<plotVars, in_sync, stack, raised>>
    /\ UNCHANGED chartVars

\* a force without the "check active sync" test
force_never_blocked == FALSE

\* "check active sync": force returns at once while a sync is running
force_blocked == in_sync

\* control.zoom(axis, minimum, maximum) by the user: Plot.zoom on the
\* control's plot, then the control raises its zoom event
ControlZoom(c, axis, req) ==
    /\ stack = <<>>
    /\ ncalls < MaxCalls
    /\ ncalls' = ncalls + 1
    /\ origin' = Some(<<c, axis>>)
    /\ applied' = [i \in 1..Len(links) |-> 0]
    /\ IF IsNone(get_obj(c, axis))
       THEN /\ raised' = TRUE
            /\ UNCHANGED <<domain, stack>>
       ELSE /\ \E ordC \in Orders, ordP \in Orders :
                 domain' = zoom(c, get_obj(c, axis), Some(req[1]), Some(req[2]), TRUE,
                                ordC, ordP, run0).dom
            /\ raised' = FALSE
            /\ stack' = <<Frame("zoom", c, 0)>>
    /\ UNCHANGED <<axes, series, last, links, in_sync, bound>>
    /\ UNCHANGED chartVars

\* the zoom event of a control reaches Syncer._on_zoom, which calls
\* force(evt.control): it returns at once while a sync is active, else it
\* sets the flag and starts on the links
OnZoom ==
    /\ stack # <<>>
    /\ Top.fn = "zoom"
    /\ Top.i < bound[Top.ctrl]
    /\ IF force_blocked
       THEN /\ stack' = ReplaceTop(Frame("zoom", Top.ctrl, Top.i + 1))
            /\ UNCHANGED in_sync
       ELSE /\ Len(stack) < MaxDepth
            /\ in_sync' = TRUE
            /\ stack' = Append(ReplaceTop(Frame("zoom", Top.ctrl, Top.i + 1)),
                               Frame("force", Top.ctrl, 1))
    /\ UNCHANGED <<plotVars, links, bound, applied, raised, origin>>
    /\ UNCHANGED chartVars

\* one turn of the loop of force over self._links: a link of another master
\* is skipped, the slave of a link of this master is zoomed to the master
\* axis's range; a KeyError of the slave's plot leaves force and every
\* caller on the stack
ForceLink ==
    /\ stack # <<>>
    /\ Top.fn = "force"
    /\ Top.i <= Len(links)
    /\ LET link == links[Top.i]
           rng == domain[link[2]]
           next == ReplaceTop(Frame("force", Top.ctrl, Top.i + 1))
       IN  IF Top.ctrl # link[1]
           THEN /\ stack' = next
                /\ UNCHANGED <<domain, applied, raised>>
           ELSE IF IsNone(get_obj(link[3], link[4]))
           THEN /\ stack' = <<>>
                /\ raised' = TRUE
                /\ UNCHANGED <<domain, applied>>
           ELSE /\ Len(stack) < MaxDepth
                /\ \E ordC \in Orders, ordP \in Orders :
                     domain' = zoom(link[3], get_obj(link[3], link[4]), Some(rng[1]),
                                    Some(rng[2]), TRUE, ordC, ordP, run0).dom
                /\ applied' = [applied EXCEPT ![Top.i] = @ + 1]
                /\ stack' = Append(next, Frame("zoom", link[3], 0))
                /\ UNCHANGED raised
    /\ UNCHANGED <<axes, series, last, ncalls, links, in_sync, bound, origin>>
    /\ UNCHANGED chartVars

\* "set sync inactive": the end of force
ForceReturn ==
    /\ stack # <<>>
    /\ Top.fn = "force"
    /\ Top.i > Len(links)
    /\ in_sync' = FALSE
    /\ stack' = Pop
    /\ UNCHANGED <<plotVars, links, bound, applied, raised, origin>>
    /\ UNCHANGED chartVars

\* the control's zoom returns once every handler of its event has run
ZoomReturn ==
    /\ stack # <<>>
    /\ Top.fn = "zoom"
    /\ Top.i >= bound[Top.ctrl]
    /\ stack' = Pop
    /\ UNCHANGED <<plotVars, links, in_sync, bound, applied, raised, origin>>
    /\ UNCHANGED chartVars

---------------------------------------------------------------------------
(* ChartBase: the frames of the chart and of its objects *)

\* pero.Frame(x, y, width, height) with its x1, y1, x2, y2 and reversed
pero_Frame(x, y, width, height) == [x |-> x, y |-> y, w |-> width, h |-> height]
x1(f) == f.x
y1(f) == f.y
x2(f) == f.x + f.w
y2(f) == f.y + f.h

\* a frame that never counts as reversed
reversed_never(f) == FALSE

\* Frame.reversed: the frame has a "negative" size
reversed(f) == f.w < 0 \/ f.h < 0

POSITION_LRTB == {"left", "right", "top", "bottom"}

\* a margin or padding is <<top, right, bottom, left>>; the side of an
\* object's margin that faces the data frame, and the side that faces away
INNER == [left |-> 2, right |-> 4, top |-> 3, bottom |-> 1]
OUTER == [left |-> 4, right |-> 2, top |-> 1, bottom |-> 3]

NoMargin == <<0, 0, 0, 0>>

\* canvas.viewport: the size a chart without width or height takes
Viewport == [width |-> 200, height |-> 200]

RECURSIVE Sum(_)
Sum(q) == IF q = <<>> THEN 0 ELSE Head(q) + Sum(Tail(q))

\* objects.sort(key=lambda o: o.z_index): the tags by z_index, objects of
\* equal z_index in the order they were registered
RECURSIVE z_sort(_, _)
z_sort(gr, S) ==
    IF S = {} THEN <<>>
    ELSE LET first == CHOOSE t \in S :
                         \A u \in S \ {t} :
                            \/ gr[t].z_index < gr[u].z_index
                            \/ gr[t].z_index = gr[u].z_index /\ gr[t].reg < gr[u].reg
         IN  <<first>> \o z_sort(gr, S \ {first})

z_sorted(gr) == z_sort(gr, DOMAIN gr)

in_objects(gr) == SelectSeq(z_sorted(gr), LAMBDA t : gr[t].kind = "in")
out_objects(gr) == SelectSeq(z_sorted(gr), LAMBDA t : gr[t].kind = "out")

\* the outside objects placed on one edge, innermost first
edge_objects(gr, e) == SelectSeq(out_objects(gr), LAMBDA t : gr[t].position = e)

\* the outside objects init_frames has no edge for, visible ones only
unknown_positions_visible(gr) ==
    {t \in DOMAIN gr : gr[t].kind = "out" /\ gr[t].visible /\ gr[t].position \notin POSITION_LRTB}

\* the outside objects init_frames has no edge for
unknown_positions(gr) ==
    {t \in DOMAIN gr : gr[t].kind = "out" /\ gr[t].position \notin POSITION_LRTB}

\* extent = obj.get_extent(canvas) if obj.visible else 0
obj_extent(gr, t) == IF gr[t].visible THEN gr[t].extent ELSE 0

\* margin = obj.margin if (obj.visible and extent) else (0, 0, 0, 0)
obj_margin(gr, t) == IF gr[t].visible /\ obj_extent(gr, t) # 0 THEN gr[t].margin ELSE NoMargin

\* two margins facing each other add up
facing_sum(margin, previous) == margin + previous

\* the margin kept between two neighbours: max(margin[..], .._margins[-1])
facing(margin, previous) == Max2(margin, previous)

\* left_margins, right_margins, top_margins or bottom_margins as the loop
\* over out_objects leaves them: [0] without objects, else the inner margin
\* of the first object, the facing margins of each neighbouring pair and the
\* outer margin of the last object
edge_margins(gr, e) ==
    LET objs == edge_objects(gr, e)
        n == Len(objs)
    IN  [k \in 1..(n + 1) |->
            IF n = 0 THEN 0
            ELSE IF k = 1 THEN facing(obj_margin(gr, objs[1])[INNER[e]], 0)
            ELSE IF k <= n THEN facing(obj_margin(gr, objs[k])[INNER[e]],
                                       obj_margin(gr, objs[k - 1])[OUTER[e]])
            ELSE obj_margin(gr, objs[n])[OUTER[e]]]

edge_extents(gr, e) ==
    LET objs == edge_objects(gr, e)
    IN  [k \in 1..Len(objs) |-> obj_extent(gr, objs[k])]

\* sum(.._extents) + sum(.._margins[:-1])
edge_space(gr, e) ==
    LET m == edge_margins(gr, e)
    IN  Sum(edge_extents(gr, e)) + Sum(SubSeq(m, 1, Len(m) - 1))

chart_width(ch) == IF IsNone(ch.width) THEN Viewport.width ELSE Val(ch.width)
chart_height(ch) == IF IsNone(ch.height) THEN Viewport.height ELSE Val(ch.height)

\* a data frame laid out from the data frame of the last layout instead of
\* from the x and y of the chart
data_frame_from_last(ch, gr) ==
    LET frame_x1 == x1(frames.data) + ch.padding[4] + edge_space(gr, "left")
        frame_x2 == ch.x - ch.padding[2] + chart_width(ch) - edge_space(gr, "right")
        frame_y1 == y1(frames.data) + ch.padding[1] + edge_space(gr, "top")
        frame_y2 == ch.y - ch.padding[3] + chart_height(ch) - edge_space(gr, "bottom")
    IN  pero_Frame(frame_x1, frame_y1, frame_x2 - frame_x1, frame_y2 - frame_y1)

\* self._data_frame of init_frames
data_frame(ch, gr) ==
    LET frame_x1 == IF IsNone(ch.frame_x1)
                    THEN ch.x + ch.padding[4] + edge_space(gr, "left")
                    ELSE Val(ch.frame_x1)
        frame_x2 == IF IsNone(ch.frame_x2)
                    THEN ch.x - ch.padding[2] + chart_width(ch) - edge_space(gr, "right")
                    ELSE Val(ch.frame_x2)
        frame_y1 == IF IsNone(ch.frame_y1)
                    THEN ch.y + ch.padding[1] + edge_space(gr, "top")
                    ELSE Val(ch.frame_y1)
        frame_y2 == IF IsNone(ch.frame_y2)
                    THEN ch.y - ch.padding[3] + chart_height(ch) - edge_space(gr, "bottom")
                    ELSE Val(ch.frame_y2)
    IN  pero_Frame(frame_x1, frame_y1, frame_x2 - frame_x1, frame_y2 - frame_y1)

\* how far from the edge of the data frame the i-th object of an edge
\* starts: .._margins[0], and extent + .._margins[j+1] for every visible
\* object before it
edge_shift(gr, e, i) ==
    LET objs == edge_objects(gr, e)
        m == edge_margins(gr, e)
    IN  m[1] + Sum([j \in 1..(i - 1) |->
                       IF gr[objs[j]].visible
                       THEN obj_extent(gr, objs[j]) + m[j + 1]
                       ELSE 0])

\* the frame of the i-th object of an edge
edge_frame(gr, df, e, i) ==
    LET extent == obj_extent(gr, edge_objects(gr, e)[i])
        shift == edge_shift(gr, e, i)
    IN  CASE e = "left" -> pero_Frame(x1(df) - shift - extent, y1(df), extent, df.h)
          [] e = "right" -> pero_Frame(x2(df) + shift, y1(df), extent, df.h)
          [] e = "top" -> pero_Frame(x1(df), y1(df) - shift - extent, df.w, extent)
          [] e = "bottom" -> pero_Frame(x1(df), y2(df) + shift, df.w, extent)

\* ChartBase.init_frames: the frames it leaves and whether it raised the
\* ValueError of an unknown position; it raises after the frames of the
\* objects are cleaned and before any other frame is written
init_frames(ch, gr, fr) ==
    IF unknown_positions(gr) # {}
    THEN [err |-> TRUE,
          frames |-> [fr EXCEPT !.obj = [t \in DOMAIN gr |-> pero_Frame(0, 0, 0, 0)]]]
    ELSE LET df == data_frame(ch, gr)
             index(t) == CHOOSE i \in 1..Len(edge_objects(gr, gr[t].position)) :
                             edge_objects(gr, gr[t].position)[i] = t
         IN  [err |-> FALSE,
              frames |-> [chart |-> pero_Frame(ch.x, ch.y, chart_width(ch), chart_height(ch)),
                          data |-> df,
                          obj |-> [t \in DOMAIN gr |->
                                     IF gr[t].kind = "in" THEN df
                                     ELSE IF gr[t].position \in POSITION_LRTB
                                     THEN edge_frame(gr, df, gr[t].position, index(t))
                                     ELSE pero_Frame(0, 0, 0, 0)]]]

\* "set mapped properties" of init_objects: every object in z order takes
\* the current value of each property mapped to it
\* self._mapping.get(tag, {})
mapping_get(mp, t) == IF t \in DOMAIN mp THEN mp[t] ELSE <<>>

RECURSIVE map_props(_, _, _)
map_props(gr, t, maps) ==
    IF maps = <<>> THEN gr
    ELSE map_props([gr EXCEPT ![t][Head(maps)[1]] = gr[Head(maps)[2]][Head(maps)[3]]],
                   t, Tail(maps))

RECURSIVE map_objects(_, _, _)
map_objects(gr, mp, objs) ==
    IF objs = <<>> THEN gr
    ELSE map_objects(map_props(gr, Head(objs), mapping_get(mp, Head(objs))), mp, Tail(objs))

set_mapped(gr, mp) == map_objects(gr, mp, z_sorted(gr))

\* what draw paints after the background when the data frame has room
chart_painting(gr) ==
    <<[what |-> "frame_fill", tag |-> "data_frame"]>>
    \o [i \in 1..Len(SelectSeq(in_objects(gr), LAMBDA t : gr[t].visible)) |->
           [what |-> "object", tag |-> SelectSeq(in_objects(gr), LAMBDA t : gr[t].visible)[i]]]
    \o <<[what |-> "frame_outline", tag |-> "data_frame"]>>
    \o [i \in 1..Len(SelectSeq(out_objects(gr), LAMBDA t : gr[t].visible)) |->
           [what |-> "object", tag |-> SelectSeq(out_objects(gr), LAMBDA t : gr[t].visible)[i]]]

Bgr == [what |-> "bgr", tag |-> "chart"]

\* what Venn.draw paints after the background when its frame has room
venn_painting ==
    <<[what |-> "circles", tag |-> "venn"], [what |-> "regions", tag |-> "venn"],
      [what |-> "labels", tag |-> "venn"]>>

ChartCall(op, err) == [op |-> op, err |-> err]

Step(what, tag, prop, frame) == [what |-> what, tag |-> tag, prop |-> prop, frame |-> frame]

\* the properties set by "set mapped properties", object after object
RECURSIVE map_steps(_, _)
map_steps(mp, objs) ==
    IF objs = <<>> THEN <<>>
    ELSE [i \in 1..Len(mapping_get(mp, Head(objs))) |->
             Step("map", Head(objs), mapping_get(mp, Head(objs))[i][1], None)]
         \o map_steps(mp, Tail(objs))

\* an init_objects that finalizes the objects before it sets the frames
pass_steps_finalize_first(maps, prepares, init, finalizes) ==
    maps \o prepares \o finalizes \o init

\* the four loops and calls of init_objects, one after the other
pass_steps(maps, prepares, init, finalizes) == maps \o prepares \o init \o finalizes

\* what init_objects does, step by step: gr and fr are the objects and the
\* frames it finds, r is what its init_frames call leaves; a prepare or
\* finalize step holds the frame the object has when it is called
init_objects_steps(gr, mp, fr, r) ==
    LET objs == z_sorted(gr)
    IN  pass_steps(map_steps(mp, objs),
                   [i \in 1..Len(objs) |-> Step("prepare", objs[i], "", fr.obj[objs[i]])],
                   <<Step("init_frames", "", "", None)>>,
                   IF r.err THEN <<>>
                   ELSE [i \in 1..Len(objs) |->
                            Step("finalize", objs[i], "", Some(r.frames.obj[objs[i]]))])

ObjectsCall(op, err, steps) == [op |-> op, err |-> err, steps |-> steps]

\* chart.init_frames(canvas)
InitFrames ==
    /\ ncalls < MaxCalls
    /\ ncalls' = ncalls + 1
    /\ LET r == init_frames(chart, graphics, frames)
       IN  /\ frames' = r.frames
           /\ last' = ChartCall("init_frames", r.err)
    /\ UNCHANGED <<axes, domain, series, syncVars, chart, graphics, mapping, venn, canvas>>

\* chart.init_objects(canvas): the mapped properties are set, the objects
\* are prepared, the frames are set, the objects are finalized; prepare and
\* finalize of ChartGraphics do nothing
InitObjects ==
    /\ ncalls < MaxCalls
    /\ ncalls' = ncalls + 1
    /\ graphics' = set_mapped(graphics, mapping)
    /\ LET r == init_frames(chart, set_mapped(graphics, mapping), frames)
       IN  /\ frames' = r.frames
           /\ last' = ObjectsCall("init_objects", r.err,
                                  init_objects_steps(graphics, mapping, frames, r))
    /\ UNCHANGED <<axes, domain, series, syncVars, chart, mapping, venn, canvas>>

\* chart.draw(canvas): nothing for an invisible chart; else init_objects,
\* the background, and the rest unless the data frame is reversed
Draw ==
    /\ ncalls < MaxCalls
    /\ ncalls' = ncalls + 1
    /\ IF ~chart.visible
       THEN /\ last' = ChartCall("draw", FALSE)
            /\ canvas' = [canvas EXCEPT !.chart = <<>>]
            /\ UNCHANGED <<graphics, frames>>
       ELSE LET gr == set_mapped(graphics, mapping)
                r == init_frames(chart, gr, frames)
            IN  /\ graphics' = gr
                /\ frames' = r.frames
                /\ last' = ChartCall("draw", r.err)
                /\ canvas' = [canvas EXCEPT !.chart =
                                 IF r.err THEN <<>>
                                 ELSE IF reversed(r.frames.data) THEN <<Bgr>>
                                 ELSE <<Bgr>> \o chart_painting(gr)]
    /\ UNCHANGED <<axes, domain, series, syncVars, chart, mapping, venn>>

\* venn.draw(canvas, width=.., height=..): the frame inside the padding, the
\* background, and the rest unless the frame is reversed
VennDraw(width, height) ==
    /\ ncalls < MaxCalls
    /\ ncalls' = ncalls + 1
    /\ LET w == IF IsNone(width) THEN Viewport.width ELSE Val(width)
           h == IF IsNone(height) THEN Viewport.height ELSE Val(height)
           f == pero_Frame(venn.padding[4], venn.padding[1],
                           w - (venn.padding[2] + venn.padding[4]),
                           h - (venn.padding[1] + venn.padding[3]))
       IN  /\ venn' = [venn EXCEPT !.frame = f]
           /\ canvas' = [canvas EXCEPT !.venn =
                            IF reversed(f) THEN <<[what |-> "bgr", tag |-> "venn"]>>
                            ELSE <<[what |-> "bgr", tag |-> "venn"]>> \o venn_painting]
    /\ last' = ChartCall("venn_draw", FALSE)
    /\ UNCHANGED <<axes, domain, series, syncVars, chart, graphics, mapping, frames>>

---------------------------------------------------------------------------
(* ChartBase: the registry of objects and of mapped properties *)

DATA_FRAME == "data_frame"

\* the properties of an InGraphics or OutGraphics that the chart reads
ChartGraphics(kind, reg, z_index, visible, position, extent, margin) ==
    [kind |-> kind, reg |-> reg, z_index |-> z_index, visible |-> visible,
     position |-> position, extent |-> extent, margin |-> margin]

\* f without the key k
Without(f, k) == [t \in DOMAIN f \ {k} |-> f[t]]

\* f with the key k set to v
Put(f, k, v) == [t \in DOMAIN f \cup {k} |-> IF t = k THEN v ELSE f[t]]

\* the z_index add gives an object that has none: one above the largest
\* non-zero z_index registered
next_z_index(gr) == SetMax({0} \cup {gr[t].z_index : t \in DOMAIN gr}) + 1

\* the place in the registration order a new object takes
next_reg(gr) == SetMax({0} \cup {gr[t].reg : t \in DOMAIN gr}) + 1

\* a remove that refuses no object
mapped_sources_none(mp) == {}

\* the sources named by the mapped properties of all objects
mapped_sources(mp) ==
    UNION { {mp[t][i][2] : i \in 1..Len(mp[t])} : t \in DOMAIN mp }

\* obj_map[obj_prop] = (src.tag, src_prop): the entry of the property is
\* replaced where it stands, a new property is put last
set_map(maps, obj_prop, src, src_prop) ==
    IF \E i \in 1..Len(maps) : maps[i][1] = obj_prop
    THEN [i \in 1..Len(maps) |->
             IF maps[i][1] = obj_prop THEN <<obj_prop, src, src_prop>> ELSE maps[i]]
    ELSE Append(maps, <<obj_prop, src, src_prop>>)

\* the check of add that lets a tag through unless it is missing
rejected_tag_missing_only(gr, tag) == IsNone(tag)

\* "check tag" of add: no tag, a tag in use, or the tag of the data frame
rejected_tag(gr, tag) == IsNone(tag) \/ Val(tag) \in DOMAIN gr \/ Val(tag) = DATA_FRAME

\* a remove that keeps the mapped properties of the object
remove_mapping_kept(mp, tag) == mp

\* "remove mapping" of remove
remove_mapping(mp, tag) == Without(mp, tag)

\* arg is the kind of the object for add, the source for map
RegistryCall(op, tag, arg, exc) ==
    [op |-> op, tag |-> tag, arg |-> arg, exc |-> exc, err |-> exc # ""]

\* chart.add(obj): obj has the tag (None for no tag), is an InGraphics
\* ("in"), an OutGraphics ("out") or some other object ("other"), and has
\* the given z_index or none
Add(tag, kind, z_index) ==
    /\ ncalls < MaxCalls
    /\ ncalls' = ncalls + 1
    /\ IF kind \notin {"in", "out"}
       THEN /\ last' = RegistryCall("add", tag, kind, "TypeError")
            /\ UNCHANGED <<graphics, frames>>
       ELSE IF rejected_tag(graphics, tag)
       THEN /\ last' = RegistryCall("add", tag, kind, "ValueError")
            /\ UNCHANGED <<graphics, frames>>
       ELSE /\ last' = RegistryCall("add", tag, kind, "")
            /\ graphics' = Put(graphics, Val(tag),
                               ChartGraphics(kind, next_reg(graphics),
                                             IF IsNone(z_index) THEN next_z_index(graphics)
                                             ELSE Val(z_index),
                                             TRUE, "UNDEF", 0, <<10, 10, 10, 10>>))
            /\ frames' = [frames EXCEPT !.obj = Put(frames.obj, Val(tag), None)]
    /\ UNCHANGED <<axes, domain, series, syncVars, chart, mapping, venn, canvas>>

\* chart.remove(tag)
Remove(tag) ==
    /\ ncalls < MaxCalls
    /\ ncalls' = ncalls + 1
    /\ IF tag \notin DOMAIN graphics
       THEN /\ last' = RegistryCall("remove", Some(tag), None, "KeyError")
            /\ UNCHANGED <<graphics, mapping, frames>>
       ELSE IF tag \in mapped_sources(mapping)
       THEN /\ last' = RegistryCall("remove", Some(tag), None, "ValueError")
            /\ UNCHANGED <<graphics, mapping, frames>>
       ELSE /\ last' = RegistryCall("remove", Some(tag), None, "")
            /\ mapping' = remove_mapping(mapping, tag)
            /\ graphics' = Without(graphics, tag)
            /\ frames' = [frames EXCEPT !.obj = Without(frames.obj, tag)]
    /\ UNCHANGED <<axes, domain, series, syncVars, chart, venn, canvas>>

\* chart.map(obj, obj_prop, src, src_prop) for properties the objects have;
\* src is None for an undefined source
Map(obj, obj_prop, src, src_prop) ==
    /\ ncalls < MaxCalls
    /\ ncalls' = ncalls + 1
    /\ IF IsNone(src)
       THEN /\ last' = RegistryCall("map", Some(obj), src, "")
            /\ UNCHANGED mapping
       ELSE IF obj \notin DOMAIN graphics \/ Val(src) \notin DOMAIN graphics
       THEN /\ last' = RegistryCall("map", Some(obj), src, "KeyError")
            /\ UNCHANGED mapping
       ELSE /\ last' = RegistryCall("map", Some(obj), src, "")
            /\ mapping' = Put(mapping, obj,
                              set_map(mapping_get(mapping, obj), obj_prop, Val(src), src_prop))
    /\ UNCHANGED <<axes, domain, series, syncVars, chart, graphics, frames, venn, canvas>>

---------------------------------------------------------------------------
(* Axis.get_extent *)

\* Axis._get_ticks_extent
get_ticks_extent(ax) ==
    LET major == IF ax.show_major_ticks THEN ax.major_tick_size + ax.major_tick_offset ELSE 0
        both == IF ax.show_minor_ticks
                THEN Max2(major, ax.minor_tick_size + ax.minor_tick_offset)
                ELSE major
    IN  Max2(0, both)

\* Axis._get_labels_extent: label_size is what the canvas measures for the
\* longest label in the direction of the extent, None when the ticker has
\* no label
get_labels_extent(ax) ==
    IF ~ax.show_labels THEN 0
    ELSE IF IsNone(ax.label_size) THEN Max2(0, ax.label_offset)
    ELSE Max2(0, ax.label_offset + Val(ax.label_size))

\* Axis._get_title_extent: title_size is the height the canvas measures for
\* the title
get_title_extent(ax) ==
    IF ax.title = "" THEN 0
    ELSE ax.title_offset + ax.title_size

\* Axis.get_extent
get_extent(ax) == get_ticks_extent(ax) + get_labels_extent(ax) + get_title_extent(ax)

\* axis.get_extent(canvas, **overrides) for an axis with the properties ax
GetExtent(ax) ==
    /\ ncalls < MaxCalls
    /\ ncalls' = ncalls + 1
    /\ last' = [op |-> "get_extent", axis |-> ax, err |-> FALSE, result |-> get_extent(ax)]
    /\ UNCHANGED <<axes, domain, series, syncVars, chartVars>>

---------------------------------------------------------------------------
(* Venn.__init__ *)

REGIONS == <<"a", "b", "ab", "c", "ac", "bc", "abc">>
CIRCLES == <<"A", "B", "C">>

\* a venn whose property A holds the patch of the region abc
patch_of_shared(key) == IF key = "A" THEN "abc" ELSE key

\* the Patch a property of the venn holds: __init__ makes one for every
\* region and every circle
patch_of(key) == key

\* self.get_property(key).value = v for every <<key, v>> in turn
RECURSIVE set_values(_, _)
set_values(value, writes) ==
    IF writes = <<>> THEN value
    ELSE set_values([value EXCEPT ![patch_of(Head(writes)[1])] = Head(writes)[2]],
                    Tail(writes))

\* "set values" of Venn.__init__: patch -> value
venn_values(a, b, ab, c, ac, bc, abc) ==
    set_values([k \in {"a", "b", "ab", "c", "ac", "bc", "abc", "A", "B", "C"} |-> 0],
               << <<REGIONS[1], a>>, <<REGIONS[2], b>>, <<REGIONS[3], ab>>,
                  <<REGIONS[4], c>>, <<REGIONS[5], ac>>, <<REGIONS[6], bc>>,
                  <<REGIONS[7], abc>>,
                  <<CIRCLES[1], a + ab + ac + abc>>,
                  <<CIRCLES[2], b + ab + bc + abc>>,
                  <<CIRCLES[3], c + ac + bc + abc>> >>)

\* venn = Venn(a, b, ab, c, ac, bc, abc)
NewVenn(a, b, ab, c, ac, bc, abc) ==
    /\ ncalls < MaxCalls
    /\ ncalls' = ncalls + 1
    /\ venn' = [padding |-> <<10, 10, 10, 10>>, frame |-> pero_Frame(0, 0, 1, 1),
                value |-> venn_values(a, b, ab, c, ac, bc, abc)]
    /\ canvas' = [canvas EXCEPT !.venn = <<>>]
    /\ last' = [op |-> "venn", err |-> FALSE, args |-> <<a, b, ab, c, ac, bc, abc>>]
    /\ UNCHANGED <<axes, domain, series, syncVars, chart, graphics, mapping, frames>>

---------------------------------------------------------------------------
(* Initial states and specifications *)

\* an Axis as Axis.__init__ and the property defaults leave it
Axis(p, tag, position, level, reg) ==
    [plot |-> p, tag |-> tag, position |-> position, level |-> level, reg |-> reg,
     static |-> FALSE, autoscale |-> FALSE, symmetric |-> FALSE, includes |-> {},
     check_limits |-> FALSE, empty_range |-> <<0, One>>]

\* a Scatter series with its data points <<x, y>>
Scatter(p, related, pts, margin) ==
    [plot |-> p, visible |-> TRUE, related |-> related, pts |-> pts, margin |-> margin]

\* LinScale(in_range=(0., 1.))
InitRange == <<0, One>>

NoCall ==
    [op |-> "init", axis |-> None, given |-> {}, minimum |-> None, maximum |-> None,
     propagate |-> FALSE, calls |-> <<>>, err |-> FALSE]

InitSyncer ==
    /\ links = <<>>
    /\ in_sync = FALSE
    /\ bound = [c \in Controls |-> 0]
    /\ stack = <<>>
    /\ applied = <<>>
    /\ raised = FALSE
    /\ origin = None

\* ChartBase.__init__ and Venn.__init__: no object, the frames (0, 0, 1, 1)
ChartProps ==
    [x |-> 0, y |-> 0, width |-> None, height |-> None, padding |-> <<10, 10, 10, 10>>,
     frame_x1 |-> None, frame_x2 |-> None, frame_y1 |-> None, frame_y2 |-> None,
     visible |-> TRUE]

NoFrames == [chart |-> pero_Frame(0, 0, 1, 1), data |-> pero_Frame(0, 0, 1, 1), obj |-> <<>>]

InitVenn ==
    /\ venn = [padding |-> <<10, 10, 10, 10>>, frame |-> pero_Frame(0, 0, 1, 1),
               value |-> venn_values(1, 1, 1, 0, 0, 0, 0)]
    /\ canvas = [chart |-> <<>>, venn |-> <<>>]

InitNoChart ==
    /\ chart = ChartProps
    /\ graphics = <<>>
    /\ mapping = <<>>
    /\ frames = NoFrames
    /\ InitVenn

\* --- one axis with one series, every setting of the axis

IncludeChoices == { {}, {1000}, {-100} }
EmptyChoices == { <<0, One>>, <<0, 0>>, <<-100, -100>> }
PtsChoices == { {}, {<<0, 0>>}, {<<-100, -100>>}, {<<0, 0>>, <<100, 100>>} }
AxisReqVals == {-100, -20, 0, 100}

InitAxis ==
    /\ \E cl \in BOOLEAN, sym \in BOOLEAN, inc \in IncludeChoices, er \in EmptyChoices :
          axes = [a \in {"x"} |->
                    [Axis("P", "x", "bottom", 1, 1) EXCEPT
                        !.check_limits = cl, !.symmetric = sym,
                        !.includes = inc, !.empty_range = er]]
    /\ \E pts \in PtsChoices :
          series = [s \in {"s1"} |-> Scatter("P", {"x"}, pts, 0)]
    /\ domain = [a \in {"x"} |-> InitRange]
    /\ last = NoCall
    /\ ncalls = 0
    /\ InitSyncer
    /\ InitNoChart

NextAxis ==
    \/ \E axis \in Opt({"x"}), pr \in BOOLEAN : Zoom("P", axis, None, None, pr)
    \/ \E start \in Opt(AxisReqVals), end \in Opt(AxisReqVals) : FinalizeAxis("x", start, end)
    \/ \E v \in BOOLEAN : SetVisible("s1", v)

SpecAxis == InitAxis /\ [][NextAxis]_vars

\* --- one plot with three axes and two series, in two layouts:
\*     "chain":  x (level 1), y (level 2) on s1; y, z (level 3) on s2
\*     "shared": x (level 1), y (level 2) on s1; z (level 1), y on s2

Layouts == {"chain", "shared"}
ZoomReqs == { <<None, None>>, <<Some(0), Some(1000)>>, <<Some(1000), Some(2000)>> }

InitPlot ==
    /\ \E layout \in Layouts, y_static \in BOOLEAN, z_auto \in BOOLEAN :
          axes = [a \in {"x", "y", "z"} |->
                    CASE a = "x" -> Axis("P", "x", "bottom", 1, 1)
                      [] a = "y" -> [Axis("P", "y", "left", 2, 2) EXCEPT
                                        !.autoscale = TRUE, !.static = y_static]
                      [] a = "z" -> [Axis("P", "z", "top", IF layout = "chain" THEN 3 ELSE 1, 3)
                                        EXCEPT !.autoscale = z_auto]]
    /\ series = [s \in {"s1", "s2"} |->
                    IF s = "s1"
                    THEN Scatter("P", {"x", "y"}, {<<0, 0>>, <<1000, 1000>>, <<2000, 3000>>}, 5)
                    ELSE Scatter("P", {"z", "y"}, {<<0, 0>>, <<1000, 1000>>, <<3000, 3000>>}, 5)]
    /\ domain = [a \in {"x", "y", "z"} |-> InitRange]
    /\ last = NoCall
    /\ ncalls = 0
    /\ InitSyncer
    /\ InitNoChart

NextPlot ==
    \/ \E axis \in Opt({"x", "y", "z"}), req \in ZoomReqs, pr \in BOOLEAN :
          Zoom("P", axis, req[1], req[2], pr)
    \/ \E given \in SUBSET {"x", "y", "z"} : FinalizeZoom(given)
    \/ \E s \in {"s1", "s2"}, v \in BOOLEAN : SetVisible(s, v)

SpecPlot == InitPlot /\ [][NextPlot]_vars

\* --- two plot controls A and B and one Syncer: each plot has an x-axis
\*     with one series, plot A has a top axis that plot B has not

InitSync ==
    /\ \E b_sym \in BOOLEAN, b_inc \in { {}, {1000} } :
          axes = [a \in {"ax", "bx", "at"} |->
                    CASE a = "ax" -> Axis("A", "x_axis", "bottom", 1, 1)
                      [] a = "bx" -> [Axis("B", "x_axis", "bottom", 1, 1) EXCEPT
                                         !.symmetric = b_sym, !.includes = b_inc]
                      [] a = "at" -> Axis("A", "top_axis", "top", 2, 2)]
    /\ series = [s \in {"sa", "sb"} |->
                    IF s = "sa" THEN Scatter("A", {"ax"}, {<<0, 0>>, <<100, 100>>}, 0)
                    ELSE Scatter("B", {"bx"}, {<<0, 0>>, <<200, 200>>}, 0)]
    /\ domain = [a \in {"ax", "bx", "at"} |-> InitRange]
    /\ last = NoCall
    /\ ncalls = 0
    /\ InitSyncer
    /\ InitNoChart

NextSync ==
    \/ \E link \in LinkChoices : Sync(link)
    \/ \E link \in LinkChoices : Unsync(link)
    \/ \E c \in Controls, req \in SyncReqs : \E axis \in plot_axes(c) : ControlZoom(c, axis, req)
    \/ OnZoom
    \/ ForceLink
    \/ ForceReturn
    \/ ZoomReturn

SpecSync == InitSync /\ [][NextSync]_vars

\* --- one axis with one series, zoomed with every mix of given and missing bounds

ZoomVals == {-20, 100}

InitZoom ==
    /\ \E sym \in BOOLEAN :
          axes = [a \in {"x"} |-> [Axis("P", "x", "bottom", 1, 1) EXCEPT !.symmetric = sym]]
    /\ \E pts \in PtsChoices :
          series = [s \in {"s1"} |-> Scatter("P", {"x"}, pts, 0)]
    /\ domain = [a \in {"x"} |-> InitRange]
    /\ last = NoCall
    /\ ncalls = 0
    /\ InitSyncer
    /\ InitNoChart

NextZoom ==
    \/ \E axis \in Opt({"x"}), minimum \in Opt(ZoomVals), maximum \in Opt(ZoomVals), pr \in BOOLEAN :
          Zoom("P", axis, minimum, maximum, pr)
    \/ \E v \in BOOLEAN : SetVisible("s1", v)

SpecZoom == InitZoom /\ [][NextZoom]_vars

\* --- the plot of three axes again, its main axes zoomed to one range and
\*     finalize_zoom called for every set of given axes

CascadeReq == <<0, 1000>>

NextCascade ==
    \/ \E given \in SUBSET {"x", "y", "z"} : FinalizeZoom(given)
    \/ \E axis \in {"x", "z"}, pr \in BOOLEAN :
          Zoom("P", Some(axis), Some(CascadeReq[1]), Some(CascadeReq[2]), pr)
    \/ \E s \in {"s1", "s2"}, v \in BOOLEAN : SetVisible(s, v)

SpecCascade == InitPlot /\ [][NextCascade]_vars

\* --- a plot whose axis y has two series of different ranges, each visible
\*     or not, asked for the limits of its axes

CropChoices == { None, Some(<<0, 0>>) }

InitLimits ==
    /\ axes = [a \in {"x", "y", "z"} |->
                  CASE a = "x" -> Axis("P", "x", "bottom", 1, 1)
                    [] a = "y" -> Axis("P", "y", "left", 2, 2)
                    [] a = "z" -> Axis("P", "z", "top", 1, 3)]
    /\ \E v1 \in BOOLEAN, v2 \in BOOLEAN :
          series = [s \in {"s1", "s2"} |->
                      IF s = "s1"
                      THEN [Scatter("P", {"x", "y"}, {<<0, 0>>, <<1000, 1000>>}, 5)
                               EXCEPT !.visible = v1]
                      ELSE [Scatter("P", {"z", "y"}, {<<0, -1000>>, <<1000, 2000>>}, 5)
                               EXCEPT !.visible = v2]]
    /\ domain = [a \in {"x", "y", "z"} |-> InitRange]
    /\ last = NoCall
    /\ ncalls = 0
    /\ InitSyncer
    /\ InitNoChart

NextLimits ==
    \/ \E axis \in {"x", "y", "z"}, x_range \in CropChoices, exact \in BOOLEAN :
          GetLimits(axis, x_range, None, exact)
    \/ \E s \in {"s1", "s2"}, v \in BOOLEAN : SetVisible(s, v)

SpecLimits == InitLimits /\ [][NextLimits]_vars

\* --- a chart with one inside object g and two outside objects o1 and o2,
\*     both on one edge, or o2 on the left and o1 elsewhere, or on no edge;
\*     each shown, hidden or without extent

PositionChoices == POSITION_LRTB \cup {"UNDEF"}
ShownChoices == { <<TRUE, 20>>, <<TRUE, 0>>, <<FALSE, 20>> }
SizeChoices == { <<None, None>>, <<Some(40), None>>, <<None, Some(40)>> }

\* o1.visible follows o2.visible, which follows g.visible
VisibleChain ==
    [t \in {"o1", "o2"} |->
        IF t = "o1" THEN << <<"visible", "o2", "visible">> >>
        ELSE << <<"visible", "g", "visible">> >>]

NoMapping == [t \in {} |-> <<>>]

InitChart ==
    /\ axes = <<>> /\ domain = <<>> /\ series = <<>>
    /\ last = NoCall
    /\ ncalls = 0
    /\ InitSyncer
    /\ InitVenn
    /\ \E size \in SizeChoices :
          chart = [ChartProps EXCEPT !.width = size[1], !.height = size[2]]
    /\ \E p1 \in PositionChoices, p2 \in PositionChoices,
          s1 \in ShownChoices, s2 \in ShownChoices :
          /\ p2 \in {p1, "left"}
          /\ graphics = [t \in {"g", "o1", "o2"} |->
                        CASE t = "g" -> ChartGraphics("in", 1, 1, TRUE, "UNDEF", 0, NoMargin)
                          [] t = "o1" -> ChartGraphics("out", 2, 2, s1[1], p1, s1[2], <<6, 7, 9, 8>>)
                          [] t = "o2" -> ChartGraphics("out", 3, 3, s2[1], p2, s2[2], <<2, 3, 12, 10>>)]
    /\ \E chain \in BOOLEAN :
          mapping = IF chain THEN VisibleChain ELSE NoMapping
    /\ frames = [NoFrames EXCEPT !.obj = [t \in {"g", "o1", "o2"} |-> None]]

VennSizes == { <<None, None>>, <<Some(15), None>>, <<None, Some(15)>> }

NextLayout ==
    \/ InitFrames
    \/ InitObjects
    \/ Draw
    \/ \E size \in VennSizes : VennDraw(size[1], size[2])

SpecLayout == InitChart /\ [][NextLayout]_vars

\* --- a chart with the objects g, o1 and o2, with or without mapped
\*     properties, to which objects are added, removed and mapped

AddTags == { None, Some("o1"), Some("n"), Some(DATA_FRAME) }
AddKinds == { "out", "other" }
AddZ == { None, Some(5) }
RemoveTags == { "g", "o1", "o2", "n" }
MapTags == { "g", "o1", "o2", "n" }

InitRegistry ==
    /\ axes = <<>> /\ domain = <<>> /\ series = <<>>
    /\ last = NoCall
    /\ ncalls = 0
    /\ InitSyncer
    /\ InitVenn
    /\ chart = ChartProps
    /\ graphics = [t \in {"g", "o1", "o2"} |->
                     CASE t = "g" -> ChartGraphics("in", 1, 1, TRUE, "UNDEF", 0, NoMargin)
                       [] t = "o1" -> ChartGraphics("out", 2, 2, TRUE, "left", 20, <<6, 7, 9, 8>>)
                       [] t = "o2" -> ChartGraphics("out", 3, 3, FALSE, "left", 20, <<2, 3, 12, 10>>)]
    /\ \E chain \in BOOLEAN :
          mapping = IF chain THEN VisibleChain ELSE NoMapping
    /\ frames = [NoFrames EXCEPT !.obj = [t \in {"g", "o1", "o2"} |-> None]]

NextRegistry ==
    \/ \E tag \in AddTags, kind \in AddKinds, z_index \in AddZ : Add(tag, kind, z_index)
    \/ \E tag \in RemoveTags : Remove(tag)
    \/ \E obj \in MapTags, src \in Opt(MapTags) : Map(obj, "visible", src, "visible")

SpecRegistry == InitRegistry /\ [][NextRegistry]_vars

\* --- an axis asked for its extent under every setting of its flags

TickOffsets == {0, -10}
LabelSizes == {None, Some(12)}
Titles == {"", "T"}

AxisExtentProps ==
    [show_major_ticks : BOOLEAN, show_minor_ticks : BOOLEAN,
     show_labels : BOOLEAN, show_title : BOOLEAN,
     major_tick_size : {6}, major_tick_offset : TickOffsets,
     minor_tick_size : {3}, minor_tick_offset : {0},
     label_offset : {2}, label_size : LabelSizes,
     title : Titles, title_offset : {4}, title_size : {10}]

InitExtent ==
    /\ axes = <<>> /\ domain = <<>> /\ series = <<>>
    /\ last = NoCall
    /\ ncalls = 0
    /\ InitSyncer
    /\ InitNoChart

NextExtent == \E ax \in AxisExtentProps : GetExtent(ax)

SpecExtent == InitExtent /\ [][NextExtent]_vars

\* --- venns made from every choice of the seven region values

RegionValues == {1, 4}

InitVenns ==
    /\ axes = <<>> /\ domain = <<>> /\ series = <<>>
    /\ last = NoCall
    /\ ncalls = 0
    /\ InitSyncer
    /\ InitNoChart

NextVenns ==
    \E a \in RegionValues, b \in RegionValues, ab \in RegionValues, c \in RegionValues \cup {0},
       ac \in RegionValues, bc \in RegionValues, abc \in RegionValues :
          NewVenn(a, b, ab, c, ac, bc, abc)

SpecVenns == InitVenns /\ [][NextVenns]_vars

---------------------------------------------------------------------------
(* Properties of Plot.finalize_axis, checked under SpecAxis *)

\* the last call was finalize_axis(x, start, end)
FinalizedX == last.op = "finalize_axis" /\ last.axis = Some("x")

\* the series range of x, and the (start, end) finalize_axis has for x after
\* its limits step
RangeX == get_series_limits("x", None, None, FALSE)
DerivedX == step_limits("x", RangeX, step_range("x", RangeX, last.minimum, last.maximum))

\* C6: with check_limits, no includes, symmetric off and a known series
\* range, finalize_axis with start < end writes a domain inside the series
\* range: start >= range_min and end <= range_max.
C6_InsideSeriesRange ==
    ( /\ FinalizedX
      /\ axes["x"].check_limits /\ axes["x"].includes = {} /\ ~axes["x"].symmetric
      /\ ~IsNone(RangeX[1]) /\ ~IsNone(RangeX[2])
      /\ ~IsNone(last.minimum) /\ ~IsNone(last.maximum)
      /\ Val(last.minimum) < Val(last.maximum) )
    => /\ domain["x"][1] >= Val(RangeX[1])
       /\ domain["x"][2] <= Val(RangeX[2])

\* C7 as stated: with includes and symmetric off, finalize_axis writes
\* start <= min(includes) and end >= max(includes), and a bound that covered
\* the includes already is written unchanged.
C7_CoversIncludesAsStated ==
    (FinalizedX /\ axes["x"].includes # {} /\ ~axes["x"].symmetric)
    => /\ domain["x"][1] <= SetMin(axes["x"].includes)
       /\ domain["x"][2] >= SetMax(axes["x"].includes)
       /\ DerivedX[1] <= SetMin(axes["x"].includes) => domain["x"][1] = DerivedX[1]
       /\ DerivedX[2] >= SetMax(axes["x"].includes) => domain["x"][2] = DerivedX[2]

\* C7: with includes and symmetric off, check_limits set or not, the domain
\* finalize_axis writes spans every included value; unless the widened range
\* is zero-width, it is written as it is: start <= min(includes),
\* end >= max(includes), a bound that covered the includes is unchanged.
C7_CoversIncludes ==
    (FinalizedX /\ axes["x"].includes # {} /\ ~axes["x"].symmetric)
    => LET incl_min == SetMin(axes["x"].includes)
           incl_max == SetMax(axes["x"].includes)
       IN  /\ Min2(domain["x"][1], domain["x"][2]) <= incl_min
           /\ Max2(domain["x"][1], domain["x"][2]) >= incl_max
           /\ Min2(DerivedX[1], incl_min) # Max2(DerivedX[2], incl_max)
              => /\ domain["x"][1] = Min2(DerivedX[1], incl_min)
                 /\ domain["x"][2] = Max2(DerivedX[2], incl_max)

\* includes (100,) with the request (0, 10) gives (0, 100)
C7_Witness ==
    /\ FinalizedX
    /\ axes["x"].includes = {1000} /\ ~axes["x"].symmetric /\ axes["x"].check_limits
    /\ last.minimum = Some(0) /\ last.maximum = Some(100)
    /\ DerivedX = <<0, 100>>
    /\ domain["x"] = <<0, 1000>>

\* C8: with symmetric set, finalize_axis writes (-m, m), m the larger
\* absolute value of the start and end it has after the limits, includes and
\* zero-range steps.
C8_Symmetric ==
    (FinalizedX /\ axes["x"].symmetric)
    => LET se == before_symmetric("x", last.minimum, last.maximum)
           m == IF Abs(se[1]) >= Abs(se[2]) THEN Abs(se[1]) ELSE Abs(se[2])
       IN  domain["x"] = <<-m, m>>

\* (-2, 10) gives (-10, 10)
C8_Witness ==
    /\ FinalizedX
    /\ axes["x"].symmetric /\ axes["x"].includes = {} /\ ~axes["x"].check_limits
    /\ last.minimum = Some(-20) /\ last.maximum = Some(100)
    /\ domain["x"] = <<-100, 100>>

\* C9: whatever the axis settings and the request, the domain finalize_axis
\* writes has start # end.
C9_NeverZeroWidth ==
    \A i \in DOMAIN last.calls :
        domain[last.calls[i].axis][1] # domain[last.calls[i].axis][2]

\* finalize_axis(x, -10, -10) on an axis without includes wrote (-9, -11)
C9_Witness ==
    /\ FinalizedX
    /\ axes["x"].includes = {} /\ ~axes["x"].symmetric
    /\ last.minimum = Some(-100) /\ last.maximum = Some(-100)
    /\ domain["x"] = <<-90, -110>>

\* C10: with no visible series with data on the axis, zoom(x, None, None)
\* writes the domain finalize_axis makes of empty_range, whatever the domain
\* was before.
C10_EmptyRange ==
    ( /\ last.op = "zoom" /\ last.axis = Some("x") /\ ~last.err
      /\ IsNone(RangeX[1]) /\ IsNone(RangeX[2]) )
    => domain["x"] =
          step_final(step_symmetric("x", step_zero(step_includes("x", axes["x"].empty_range))))

---------------------------------------------------------------------------
(* Properties of Plot.finalize_zoom, checked under SpecPlot *)

\* the non-static autoscale axes that depend on the axis through a chain of
\* child relations of at most n steps, every axis of the chain non-static
\* and autoscale
RECURSIVE Dependents(_, _)
Dependents(axis, n) ==
    IF n = 0 THEN {}
    ELSE LET direct == {c \in get_child_axes(axis) : ~axes[c].static /\ axes[c].autoscale}
         IN  direct \cup UNION {Dependents(c, n - 1) : c \in direct}

\* C4: in one finalize_zoom call finalize_axis is called at most once per
\* axis, whatever the given axes and the series they share with a child.
C4_FinalizedOnce ==
    last.op = "finalize_zoom"
    => \A i, j \in DOMAIN last.calls :
          i # j => last.calls[i].axis # last.calls[j].axis

\* C5: after zoom(axis, lo, hi, propagate=True) every non-static autoscale
\* axis that depends on the zoomed axis through a chain of child relations
\* has been recomputed, a child of a child included.
C5_DependentsRecomputed ==
    (last.op = "zoom" /\ ~last.err /\ last.propagate /\ ~IsNone(last.axis))
    => \A c \in Dependents(Val(last.axis), Cardinality(DOMAIN axes)) :
          \E i \in DOMAIN last.calls : last.calls[i].axis = c

---------------------------------------------------------------------------
(* Properties of Syncer, checked under SpecSync *)

\* the x-axes of A and B are linked in both directions
MutualSync ==
    /\ \E i \in DOMAIN links : links[i] = <<"A", "ax", "B", "bx">>
    /\ \E i \in DOMAIN links : links[i] = <<"B", "bx", "A", "ax">>

\* C1: a zoom on a control ends: its call stack never grows past the user's
\* zoom, one force and the zoom of a slave, because the force a slave's zoom
\* event re-enters returns at once; no link is applied more than once for
\* one zoom of the user.
C1_LinksAppliedOnce ==
    /\ Len(stack) <= 3
    /\ \A i \in DOMAIN applied : applied[i] <= 1
    /\ (Len(stack) = 3 => in_sync)

\* A and B mutually linked, the user zoomed A, force zoomed B, and the force
\* B's zoom event called has returned without applying a link
C1_Witness ==
    /\ MutualSync
    /\ origin = Some(<<"A", "ax">>)
    /\ Len(stack) = 3
    /\ Top = Frame("zoom", "B", 1)
    /\ bound["B"] = 1
    /\ in_sync
    /\ \E i \in DOMAIN links : links[i] = <<"A", "ax", "B", "bx">> /\ applied[i] = 1
    /\ \A i \in DOMAIN links : links[i] = <<"B", "bx", "A", "ax">> => applied[i] = 0

\* C2: once a zoom on A has ended with the x-axes of A and B mutually
\* synced, and force has run to its end, the two axes have equal domains,
\* whatever their settings and data.
C2_EqualDomains ==
    (MutualSync /\ origin = Some(<<"A", "ax">>) /\ stack = <<>> /\ ~raised /\ ~in_sync)
    => domain["ax"] = domain["bx"]

\* C3: _in_sync is cleared on every exit of force, also when the zoom of a
\* slave raises: no call is running means the flag is down.
C3_FlagCleared ==
    stack = <<>> => ~in_sync

---------------------------------------------------------------------------
(* Properties of Plot.zoom, checked under SpecZoom *)

\* the last call was zoom(x, minimum, maximum) with exactly one bound missing
ZoomedXPartly ==
    /\ last.op = "zoom" /\ last.axis = Some("x") /\ ~last.err
    /\ IsNone(last.minimum) # IsNone(last.maximum)

C12_MissingFromSeries ==
    (ZoomedXPartly /\ ~IsNone(RangeX[1]) /\ ~IsNone(RangeX[2]))
    => /\ IsNone(last.minimum) => last.calls[1].start = RangeX[1]
       /\ IsNone(last.maximum) => last.calls[1].end = RangeX[2]

---------------------------------------------------------------------------
(* Properties of Plot.finalize_zoom, checked under SpecCascade *)

\* C13: finalize_zoom leaves the domain of every static axis, of every axis
\* with autoscale off and of every given axis as it was; the axes it
\* finalizes are children of a given axis, not static, with autoscale on.
C13_OnlyAutoscaleChildren ==
    [][ last'.op = "finalize_zoom"
        => /\ \A a \in DOMAIN axes :
                (axes[a].static \/ ~axes[a].autoscale \/ a \in last'.given)
                => domain'[a] = domain[a]
           /\ \A i \in DOMAIN last'.calls :
                LET c == last'.calls[i].axis
                IN  /\ ~axes[c].static /\ axes[c].autoscale /\ c \notin last'.given
                    /\ \E g \in last'.given : c \in get_child_axes(g) ]_vars

\* finalize_zoom(x) with x at (0, 100) recomputed the autoscale child y to
\* (-5, 105) and left x and the axis z, which has autoscale off, as they were
C13_Witness ==
    /\ last.op = "finalize_zoom" /\ last.given = {"x"}
    /\ ~axes["y"].static /\ ~axes["z"].autoscale /\ axes["z"].level = 3
    /\ last.calls = << [axis |-> "y", start |-> Some(-50), end |-> Some(1050)] >>
    /\ domain["y"] = <<-50, 1050>>
    /\ domain["x"] = <<0, 1000>> /\ domain["z"] = InitRange

\* C14: for the same plot and the same finalize_zoom call the domains of all
\* axes come out the same whatever order the given axes, the children and
\* the parents are iterated in.
C14_OrderIndependent ==
    \A given \in SUBSET plot_axes("P") :
        \A ordA1, ordA2 \in Perms(given), ordC1, ordC2, ordP1, ordP2 \in Orders :
            finalize_zoom(given, ordA1, ordC1, ordP1, run0).dom
                = finalize_zoom(given, ordA2, ordC2, ordP2, run0).dom

---------------------------------------------------------------------------
(* Idempotence of Plot.finalize_axis, checked under SpecAxis *)

\* C15: finalize_axis called with the domain a previous finalize_axis wrote
\* for the axis, the series unchanged, writes that domain again, whatever
\* the axis settings.
C15_Idempotent ==
    FinalizedX
    => finalize_axis("x", Some(domain["x"][1]), Some(domain["x"][2])) = domain["x"]

---------------------------------------------------------------------------
(* Properties of Plot.get_limits, checked under SpecLimits *)

\* the limits the series s has for the dimension of the axis a under the
\* crop and exactness of the last get_limits call, None when it has none
AskedLimits(s, a) ==
    LET l == get_limits(series[s], last.x_range, last.y_range, last.exact)
    IN  IF IsNone(l) THEN None
        ELSE Some(Val(l)[IF axes[a].position \in POSITION_TB THEN 1 ELSE 2])

\* C16: get_limits of an axis returns the smallest lower limit and the
\* largest upper limit of the visible series mapped to the axis; invisible
\* series and series not mapped to it do not count; (None, None) is returned
\* when no series counts.
C16_UnionOfVisible ==
    last.op = "get_limits"
    => LET a == Val(last.axis)
           counted == {s \in DOMAIN series :
                          /\ series[s].visible
                          /\ a \in series[s].related
                          /\ ~IsNone(AskedLimits(s, a))}
       IN  IF counted = {} THEN last.result = <<None, None>>
           ELSE /\ \E s \in counted : last.result[1] = Some(Val(AskedLimits(s, a))[1])
                /\ \A s \in counted : Val(last.result[1]) <= Val(AskedLimits(s, a))[1]
                /\ \E s \in counted : last.result[2] = Some(Val(AskedLimits(s, a))[2])
                /\ \A s \in counted : Val(last.result[2]) >= Val(AskedLimits(s, a))[2]

\* the limits of y with s1 hidden and s2 visible are those of s2 alone,
\* (-115, 215) with its margin
C16_Witness ==
    /\ last.op = "get_limits" /\ last.axis = Some("y")
    /\ IsNone(last.x_range) /\ ~last.exact
    /\ ~series["s1"].visible /\ series["s2"].visible
    /\ last.result = <<Some(-1150), Some(2150)>>

---------------------------------------------------------------------------
(* Properties of the chart layout and drawing, checked under SpecLayout *)

\* the last call computed the frames from the objects as they are now
LaidOut == last.op \in {"init_frames", "init_objects", "draw"} /\ ~last.err

\* a and b are visible outside objects with an extent on the edge e, a
\* nearer to the data frame, and no outside object of that edge between them
Neighbours(a, b, e) ==
    LET key(t) == <<graphics[t].z_index, graphics[t].reg>>
        before(t, u) == key(t)[1] < key(u)[1] \/ (key(t)[1] = key(u)[1] /\ key(t)[2] < key(u)[2])
        shown(t) == /\ graphics[t].kind = "out" /\ graphics[t].position = e
                    /\ graphics[t].visible /\ graphics[t].extent # 0
    IN  /\ shown(a) /\ shown(b) /\ before(a, b)
        /\ ~\E c \in DOMAIN graphics :
               graphics[c].kind = "out" /\ graphics[c].position = e /\ before(a, c) /\ before(c, b)

\* the room between the frames of a and b along the edge e
Gap(a, b, e) ==
    LET fa == frames.obj[a]
        fb == frames.obj[b]
    IN  CASE e = "left" -> fa.x - (fb.x + fb.w)
          [] e = "right" -> fb.x - (fa.x + fa.w)
          [] e = "top" -> fa.y - (fb.y + fb.h)
          [] e = "bottom" -> fb.y - (fa.y + fa.h)

\* the margin of a that faces b, and the margin of b that faces a
FacingPair(a, b, e) ==
    LET ma == graphics[a].margin
        mb == graphics[b].margin
    IN  CASE e = "left" -> <<ma[4], mb[2]>>
          [] e = "right" -> <<ma[2], mb[4]>>
          [] e = "top" -> <<ma[1], mb[3]>>
          [] e = "bottom" -> <<ma[3], mb[1]>>

\* C17: after init_frames two neighbouring visible outside objects with an
\* extent on one edge are apart by the larger of their two facing margins,
\* not by the sum of them.
C17_MaxNotSum ==
    LaidOut
    => \A e \in POSITION_LRTB : \A a \in DOMAIN graphics, b \in DOMAIN graphics :
          Neighbours(a, b, e)
          => LET m == FacingPair(a, b, e)
             IN  Gap(a, b, e) = IF m[1] >= m[2] THEN m[1] ELSE m[2]

\* o1 and o2 on the left with facing margins 8 and 3 are 8 apart
C17_Witness ==
    /\ last.op = "init_frames" /\ ~last.err
    /\ Neighbours("o1", "o2", "left")
    /\ FacingPair("o1", "o2", "left") = <<8, 3>>
    /\ Gap("o1", "o2", "left") = 8

C19_ReversedStopsAfterBgr ==
    /\ ( /\ last.op = "draw"
         /\ \A t \in DOMAIN graphics :
               graphics[t].kind = "out" => graphics[t].position \in POSITION_LRTB
         /\ (frames.data.w < 0 \/ frames.data.h < 0) )
       => ~last.err /\ canvas.chart = <<[what |-> "bgr", tag |-> "chart"]>>
    /\ (last.op = "venn_draw" /\ (venn.frame.w < 0 \/ venn.frame.h < 0))
       => ~last.err /\ canvas.venn = <<[what |-> "bgr", tag |-> "venn"]>>

\* a chart too narrow for its objects and a venn too narrow for its padding,
\* both drawn
C19_Witness ==
    /\ last.op = "venn_draw" /\ ~last.err
    /\ venn.frame.w < 0
    /\ canvas.venn = <<[what |-> "bgr", tag |-> "venn"]>>
    /\ frames.data.w < 0 /\ frames.chart.w = 40
    /\ canvas.chart = <<[what |-> "bgr", tag |-> "chart"]>>

\* C20: init_frames raises when an outside object has a position other
\* than left, right, top or bottom, visible or not.
C20_UnknownPositionRaises ==
    ( /\ last.op \in {"init_frames", "init_objects", "draw"}
      /\ \E t \in DOMAIN graphics :
            graphics[t].kind = "out"
            /\ graphics[t].position \notin {"left", "right", "top", "bottom"} )
    => last.err

\* init_frames raised for a hidden object without position
C20_Witness ==
    /\ last.op = "init_frames" /\ last.err
    /\ graphics["o1"].position = "UNDEF" /\ ~graphics["o1"].visible
    /\ graphics["o2"].position = "left"

---------------------------------------------------------------------------
(* Properties of the chart registry, checked under SpecRegistry *)

\* the tag is the source of a mapped property of some object
IsSource(tag) ==
    \E t \in DOMAIN mapping : \E i \in 1..Len(mapping[t]) : mapping[t][i][2] = tag

\* C21: remove of a registered object that is the source of a mapped
\* property raises ValueError and leaves the objects and the mapped
\* properties as they were; remove of a registered object that is no source
\* succeeds, and takes the object and its own mapped properties away, and
\* nothing else.
C21_RemoveSourceRefused ==
    [][ (last'.op = "remove" /\ Val(last'.tag) \in DOMAIN graphics)
        => IF IsSource(Val(last'.tag))
           THEN /\ last'.exc = "ValueError"
                /\ graphics' = graphics
                /\ mapping' = mapping
           ELSE /\ last'.exc = ""
                /\ DOMAIN graphics' = DOMAIN graphics \ {Val(last'.tag)}
                /\ DOMAIN mapping' = DOMAIN mapping \ {Val(last'.tag)}
                /\ \A t \in DOMAIN graphics' : graphics'[t] = graphics[t]
                /\ \A t \in DOMAIN mapping' : mapping'[t] = mapping[t] ]_vars

\* o1, which only takes its visible from o2, was removed with its mapped
\* property; o2 still takes its visible from g
C21_Witness ==
    /\ last.op = "remove" /\ last.tag = Some("o1") /\ last.exc = ""
    /\ DOMAIN graphics = {"g", "o2"}
    /\ DOMAIN mapping = {"o2"}

C28_NoDanglingMapping ==
    \A t \in DOMAIN mapping :
        /\ t \in DOMAIN graphics
        /\ \A i \in 1..Len(mapping[t]) : mapping[t][i][2] \in DOMAIN graphics

\* after a map and a remove there are mapped properties left
C28_Witness ==
    /\ last.op = "remove" /\ last.exc = "" /\ ncalls = 2
    /\ DOMAIN mapping = {"g"}
    /\ mapping["g"] = << <<"visible", "o2", "visible">> >>
    /\ DOMAIN graphics = {"g", "o2"}

---------------------------------------------------------------------------
(* Properties of Axis.get_extent, checked under SpecExtent *)

\* C23: get_extent is the sum of the extent of the ticks, of the labels and
\* of the title, and a part whose flag is off (show_major_ticks and
\* show_minor_ticks, show_labels, show_title) adds nothing.
C23_ExtentByFlags ==
    last.op = "get_extent"
    => LET ax == last.axis
       IN  last.result =
              (IF ax.show_major_ticks \/ ax.show_minor_ticks THEN get_ticks_extent(ax) ELSE 0)
              + (IF ax.show_labels THEN get_labels_extent(ax) ELSE 0)
              + (IF ax.show_title THEN get_title_extent(ax) ELSE 0)

---------------------------------------------------------------------------
(* Properties of Venn.__init__, checked under SpecVenns *)

\* C24: a venn made from (a, b, ab, c, ac, bc, abc) holds these seven values
\* in its regions, so that they add up to the total given, and each circle
\* holds the sum of the four regions inside it.
C24_RegionsAndCircles ==
    last.op = "venn"
    => LET given == last.args
           v == venn.value
       IN  /\ <<v["a"], v["b"], v["ab"], v["c"], v["ac"], v["bc"], v["abc"]>> = given
           /\ v["a"] + v["b"] + v["ab"] + v["c"] + v["ac"] + v["bc"] + v["abc"]
                 = given[1] + given[2] + given[3] + given[4] + given[5] + given[6] + given[7]
           /\ v["A"] = given[1] + given[3] + given[5] + given[7]
           /\ v["B"] = given[2] + given[3] + given[6] + given[7]
           /\ v["C"] = given[4] + given[5] + given[6] + given[7]

\* Venn(1, 4, 1, 0, 4, 1, 4) has the circles 10, 10 and 9
C24_Witness ==
    /\ last.op = "venn" /\ last.args = <<1, 4, 1, 0, 4, 1, 4>>
    /\ venn.value["abc"] = 4
    /\ venn.value["A"] = 10 /\ venn.value["B"] = 10 /\ venn.value["C"] = 9

---------------------------------------------------------------------------
(* The order of the steps of init_objects, checked under SpecLayout *)

\* the places of the steps of one kind in the last init_objects pass
StepsOf(what) == {i \in 1..Len(last.steps) : last.steps[i].what = what}

\* C25: an init_objects pass sets every mapped property once, object after
\* object in ascending z_index, then prepares every object, then sets the
\* frames, then finalizes every object: no object is finalized before the
\* frames of the pass are set and none is prepared after.
C25_StepOrder ==
    last.op = "init_objects"
    => LET s == last.steps
           zkey(i) == <<graphics[s[i].tag].z_index, graphics[s[i].tag].reg>>
           ascending(I) == \A i \in I, j \in I :
                              i < j => \/ zkey(i)[1] < zkey(j)[1]
                                       \/ zkey(i)[1] = zkey(j)[1] /\ zkey(i)[2] <= zkey(j)[2]
       IN  /\ \A i \in StepsOf("map"), j \in StepsOf("prepare") : i < j
           /\ \A i \in StepsOf("prepare"), j \in StepsOf("init_frames") : i < j
           /\ \A i \in StepsOf("init_frames"), j \in StepsOf("finalize") : i < j
           /\ Cardinality(StepsOf("init_frames")) = 1
           /\ ascending(StepsOf("map")) /\ ascending(StepsOf("prepare"))
           /\ ascending(StepsOf("finalize"))
           /\ \A t \in DOMAIN mapping : \A k \in 1..Len(mapping[t]) :
                 Cardinality({i \in StepsOf("map") :
                                 s[i].tag = t /\ s[i].prop = mapping[t][k][1]}) = 1
           /\ \A t \in DOMAIN graphics :
                 /\ Cardinality({i \in StepsOf("prepare") : s[i].tag = t}) = 1
                 /\ Cardinality({i \in StepsOf("finalize") : s[i].tag = t})
                       = IF last.err THEN 0 ELSE 1
           /\ \A i \in StepsOf("finalize") : s[i].frame = Some(frames.obj[s[i].tag])

\* a pass over the chart with the chain of mapped properties: two
\* properties set, three objects prepared, the frames set, three objects
\* finalized, g first and o2 last, o1 finalized with its new frame
C25_Witness ==
    /\ last.op = "init_objects" /\ ~last.err /\ ncalls = 1
    /\ mapping = VisibleChain
    /\ [i \in 1..Len(last.steps) |-> <<last.steps[i].what, last.steps[i].tag>>]
          = << <<"map", "o1">>, <<"map", "o2">>,
               <<"prepare", "g">>, <<"prepare", "o1">>, <<"prepare", "o2">>,
               <<"init_frames", "">>,
               <<"finalize", "g">>, <<"finalize", "o1">>, <<"finalize", "o2">> >>
    /\ last.steps[4].frame = None
    /\ last.steps[8].frame = Some(frames.obj["o1"])
    /\ frames.obj["o1"].w = 20

---------------------------------------------------------------------------
(* The room reserved and the room used, checked under SpecLayout *)

\* the visible outside object of the edge e that lies farthest from the
\* data frame, None when the edge has no visible object
Outermost(e) ==
    LET shown == {t \in DOMAIN graphics :
                     graphics[t].kind = "out" /\ graphics[t].position = e /\ graphics[t].visible}
        after(t, u) == \/ graphics[t].z_index > graphics[u].z_index
                       \/ graphics[t].z_index = graphics[u].z_index /\ graphics[t].reg > graphics[u].reg
    IN  IF shown = {} THEN None
        ELSE Some(CHOOSE t \in shown : \A u \in shown \ {t} : after(t, u))

\* the outer boundary of the frame of the object t on the edge e is where
\* the padding of the chart ends
AtPadding(t, e) ==
    LET f == frames.obj[t]
        width == IF chart.width = None THEN 200 ELSE Val(chart.width)
        height == IF chart.height = None THEN 200 ELSE Val(chart.height)
    IN  CASE e = "left" -> f.x = chart.x + chart.padding[4]
          [] e = "right" -> f.x + f.w = chart.x + width - chart.padding[2]
          [] e = "top" -> f.y = chart.y + chart.padding[1]
          [] e = "bottom" -> f.y + f.h = chart.y + height - chart.padding[3]

\* the data frame coordinate of the edge is not fixed by a chart property
Computed(e) ==
    CASE e = "left" -> chart.frame_x1 = None
      [] e = "right" -> chart.frame_x2 = None
      [] e = "top" -> chart.frame_y1 = None
      [] e = "bottom" -> chart.frame_y2 = None

\* C26: after init_frames, on every edge whose data frame coordinate is
\* computed, the outermost visible outside object ends exactly where the
\* padding of the chart ends, also when an object of that edge is invisible.
C26_ReservedIsUsed ==
    (last.op = "init_frames" /\ ~last.err)
    => \A e \in {"left", "right", "top", "bottom"} :
          (Computed(e) /\ Outermost(e) # None) => AtPadding(Val(Outermost(e)), e)

---------------------------------------------------------------------------
(* The mapped properties after a pass, checked under SpecLayout *)

\* C27: after the mapped properties are set by init_objects, every mapped
\* property of an object has the value its source property has by then,
\* also when the source takes that property from a third object, and
\* whatever the z_index of the objects.
C27_MappedEqualsSource ==
    last.op = "init_objects"
    => \A t \in DOMAIN mapping : \A i \in 1..Len(mapping[t]) :
          graphics[t][mapping[t][i][1]] = graphics[mapping[t][i][2]][mapping[t][i][3]]

---------------------------------------------------------------------------
(* The direction of the domain finalize_axis writes, checked under SpecAxis *)

\* C29: with an ascending series range, finalize_axis called with
\* start <= end writes a domain with start < end, whatever the settings of
\* the axis and the sign of the request.
C29_NeverDescending ==
    ( /\ FinalizedX
      /\ ~IsNone(RangeX[1]) /\ ~IsNone(RangeX[2]) /\ Val(RangeX[1]) < Val(RangeX[2])
      /\ ~IsNone(last.minimum) /\ ~IsNone(last.maximum)
      /\ Val(last.minimum) <= Val(last.maximum) )
    => domain["x"][1] < domain["x"][2]

---------------------------------------------------------------------------
(* The zoom handler of the Syncer, checked under SpecSync *)

\* C30: after any sync and unsync calls the zoom handler of the syncer is
\* bound once to every control that is the master of a registered link, and
\* is not bound to any other control.
C30_BoundIffMaster ==
    \A c \in {"A", "B"} :
        bound[c] = IF \E i \in DOMAIN links : links[i][1] = c THEN 1 ELSE 0

\* the same link registered twice: A is bound once, B not at all
C30_Witness ==
    /\ Len(links) = 2 /\ links[1] = links[2] /\ links[1][1] = "A"
    /\ bound["A"] = 1 /\ bound["B"] = 0
    /\ stack = <<>>

===========================================================================
